---- MODULE Spec2Model ----
(***************************************************************************)
(* Model of src/src/components/InertiaGame.tsx: the React component state  *)
(* `gameState`, the canvas the component draws on, the pointer handlers,   *)
(* the reset / next-level / slider controls and the physics step that the  *)
(* animation callback applies.                                             *)
(*                                                                         *)
(* Numbers.  The program computes in JavaScript numbers.  The model holds  *)
(* every coordinate, velocity and the score as an exact decimal fraction   *)
(* with Digits fractional digits, stored as the integer value * 10^Digits. *)
(* A physics step whose exact result needs more fractional digits is       *)
(* outside the model (see Steppable): inside the model all arithmetic is   *)
(* exact, nothing is rounded.  The friction coefficient is held in         *)
(* hundredths (the slider's step is 0.01, the presets are multiples of it).*)
(*                                                                         *)
(* Left out of the object record: `id` and `color`, both drawn from        *)
(* Math.random at creation and read by nothing but the renderer.           *)
(*                                                                         *)
(* Specifications.  Spec: every handler, with animate callable at any      *)
(* time.  SpecRun: one object in long flights.  SpecStepper: updatePhysics *)
(* and render applied to a launched object, the canvas reference possibly  *)
(* null.  SpecLoop: the scheduling of animate by the effect of lines       *)
(* 308-323 (commits, frame requests, cleanup, unmount).                    *)
(***************************************************************************)
EXTENDS Integers, Sequences, FiniteSets, TLC

VARIABLES
    gameState,  \* the useState record (GameState, lines 16-26 and 64-74)
    canvas,     \* canvasRef.current: NoCanvas or [width, height] in pixels
    frames,     \* number of physics steps performed so far (model bound)
    hist,       \* history, one entry per object of gameState.objects
    last,       \* history: the last handler that ran and what it found
    loop        \* the animation loop: effect of lines 308-323 and its requests

vars == <<gameState, canvas, frames, hist, last, loop>>

----------------------------------------------------------------------------
(* Bounds of the model *)

Digits == 4          \* fractional decimal digits kept exactly
MaxFrames == 2       \* physics steps per behaviour of Spec
MaxObjects == 2      \* objects alive at once in Spec
MaxScore == 20       \* Spec: launches stop once the score would exceed this
RunFrames == 52      \* physics steps per behaviour of SpecRun
RunScore == 50       \* SpecRun: launches stop once the score would exceed this
StepFrames == 4      \* physics steps per behaviour of SpecStepper
MaxCalls == 5        \* calls of animate per behaviour of SpecLoop

----------------------------------------------------------------------------
(* Exact decimal arithmetic *)

RECURSIVE Pow10(_)
Pow10(k) == IF k = 0 THEN 1 ELSE 10 * Pow10(k - 1)

Unit == Pow10(Digits)                    \* the number 1
Px(n) == n * Unit                        \* a whole number of pixels
Times(v, num, den) == (v * num) \div den \* v * (num/den), when exact
Exact(v, num, den) == (v * num) % den = 0
Abs(v) == IF v < 0 THEN -v ELSE v
Min(a, b) == IF a <= b THEN a ELSE b
Max(a, b) == IF a >= b THEN a ELSE b

----------------------------------------------------------------------------
(* Program constants *)

Radius == 20             \* size: 20
TrailMax == 50           \* trail.length > 50 ... slice(-50)
MaxCanvasWidth == 800    \* Math.min(800, ...)
MaxCanvasHeight == 600   \* Math.min(600, ...)
WidthMargin == 40        \* window.innerWidth - 40
HeightMargin == 200      \* window.innerHeight - 200

\* (mutant: the constant mistyped as 0.03)
GravityStepWeak == Times(Unit, 3, 100)
GravityStep == Times(Unit, 3, 10)        \* newObj.vy += 0.3

LEVELS == <<
    [friction |-> 0, gravity |-> FALSE],     \* Frictionless Space
    [friction |-> 2, gravity |-> FALSE],     \* Air Resistance   (0.02)
    [friction |-> 1, gravity |-> TRUE],      \* Gravity Field    (0.01)
    [friction |-> 3, gravity |-> TRUE] >>    \* Real World       (0.03)

LevelPreset(n) == LEVELS[n + 1]            \* LEVELS[n], n counted from 0
LastLevel == Len(LEVELS) - 1               \* LEVELS.length - 1

NULL == [null |-> TRUE]
NoCanvas == [mounted |-> FALSE]

----------------------------------------------------------------------------
(* Inputs *)

\* Pointer positions relative to the canvas element, in pixels.
\* Points: where the button goes down; Targets: where the pointer is moved to.
Points == { [x |-> 5, y |-> 5] }
Targets == { [x |-> 105, y |-> 5] }
RunPoints == { [x |-> 100, y |-> 300], [x |-> 529, y |-> 300], [x |-> 700, y |-> 500] }
RunTargets == { [x |-> 200, y |-> 300], [x |-> 779, y |-> 300], [x |-> 800, y |-> 600] }

\* Values the friction slider delivers (hundredths; min 0, max 0.1).
SliderValues == {10}

\* SpecStepper: where the object is launched, the drag of its gesture, and
\* the friction the slider was left at (hundredths).
StepPoints == { [x |-> 5, y |-> 5], [x |-> 400, y |-> 300], [x |-> 775, y |-> 300] }
StepDrags == { [x |-> 100, y |-> 0], [x |-> 15, y |-> -10], [x |-> 0, y |-> 35] }
StepFrictions == {0, 2, 10}

\* (window.innerWidth, window.innerHeight) at a resize.
WindowSizes == { <<1000, 900>>, <<70, 230>> }

----------------------------------------------------------------------------
(* createObject, lines 76-89 *)

createObject(x, y, vx, vy) ==
    [x |-> x, y |-> y, vx |-> vx, vy |-> vy,
     mass |-> 1, trail |-> << >>, size |-> Px(Radius)]

----------------------------------------------------------------------------
(* updatePhysics, lines 91-135 *)

\* (mutant: the gravity flag read inverted)
ApplyGravityInverted(vy, gravity) == IF ~gravity THEN vy + GravityStep ELSE vy

\* lines 96-99: if (prevState.gravity) newObj.vy += 0.3
ApplyGravity(vy, gravity) == IF gravity THEN vy + GravityStep ELSE vy

\* lines 101-105: if (prevState.friction > 0) v *= (1 - prevState.friction)
ApplyFriction(v, friction) ==
    IF friction > 0 THEN Times(v, 100 - friction, 100) ELSE v

\* (mutant: friction applied before gravity)
moveObjectFrictionFirst(obj, friction, gravity) ==
    LET vx == ApplyFriction(obj.vx, friction)
        vy == ApplyGravity(ApplyFriction(obj.vy, friction), gravity)
    IN  [obj EXCEPT !.vx = vx, !.vy = vy, !.x = obj.x + vx, !.y = obj.y + vy]

\* lines 94-109: gravity, friction, then position += velocity
moveObject(obj, friction, gravity) ==
    LET vx == ApplyFriction(obj.vx, friction)
        vy == ApplyFriction(ApplyGravity(obj.vy, gravity), friction)
    IN  [obj EXCEPT !.vx = vx, !.vy = vy, !.x = obj.x + vx, !.y = obj.y + vy]

\* (mutant: slice(0, 50), which keeps the oldest entries)
TrimTrailKeepFirst(trail) ==
    IF Len(trail) > TrailMax THEN SubSeq(trail, 1, TrailMax) ELSE trail

\* lines 113-115: trail.slice(-50) once the trail is longer than 50
TrimTrail(trail) ==
    IF Len(trail) > TrailMax
    THEN SubSeq(trail, Len(trail) - TrailMax + 1, Len(trail))
    ELSE trail

\* lines 111-115
appendTrail(obj) ==
    [obj EXCEPT !.trail = TrimTrail(Append(obj.trail, [x |-> obj.x, y |-> obj.y]))]

\* the test of lines 120 and 124 for one axis
HitsWall(pos, size, dim) == pos <= size \/ pos >= dim - size

\* (mutant: a reflection without the energy loss)
BounceNoLoss(v) == -v

\* lines 121 and 125: v *= -0.8
Bounce(v) == Times(v, -8, 10)

\* (mutant: the Math.max against size forgotten)
ClampUpperOnly(pos, size, dim) == Min(dim - size, pos)

\* lines 122 and 126: Math.max(size, Math.min(dim - size, pos))
Clamp(pos, size, dim) == Max(size, Min(dim - size, pos))

\* lines 117-128
bounceOffWalls(obj, cv) ==
    IF cv = NoCanvas THEN obj
    ELSE LET hitX == HitsWall(obj.x, obj.size, Px(cv.width))
             hitY == HitsWall(obj.y, obj.size, Px(cv.height))
         IN  [obj EXCEPT
                !.vx = IF hitX THEN Bounce(obj.vx) ELSE obj.vx,
                !.x  = IF hitX THEN Clamp(obj.x, obj.size, Px(cv.width)) ELSE obj.x,
                !.vy = IF hitY THEN Bounce(obj.vy) ELSE obj.vy,
                !.y  = IF hitY THEN Clamp(obj.y, obj.size, Px(cv.height)) ELSE obj.y]

\* lines 93-131: the callback of prevState.objects.map
stepObject(obj, friction, gravity, cv) ==
    bounceOffWalls(appendTrail(moveObject(obj, friction, gravity)), cv)

\* lines 92-134: the updater handed to setGameState
updatePhysics(prevState, cv) ==
    [prevState EXCEPT !.objects =
        [i \in 1..Len(prevState.objects) |->
            stepObject(prevState.objects[i], prevState.friction, prevState.gravity, cv)]]

\* The step of obj is exact in Digits fractional digits.
StepExact(obj, friction, gravity, cv) ==
    LET m == moveObject(obj, friction, gravity)
    IN  /\ friction > 0 => /\ Exact(obj.vx, 100 - friction, 100)
                           /\ Exact(ApplyGravity(obj.vy, gravity), 100 - friction, 100)
        /\ cv # NoCanvas =>
             /\ HitsWall(m.x, m.size, Px(cv.width)) => Exact(m.vx, 8, 10)
             /\ HitsWall(m.y, m.size, Px(cv.height)) => Exact(m.vy, 8, 10)

Steppable(gs, cv) ==
    \A i \in 1..Len(gs.objects) :
        StepExact(gs.objects[i], gs.friction, gs.gravity, cv)

----------------------------------------------------------------------------
(* render, lines 137-234: returns at once without a canvas (line 139),     *)
(* otherwise paints gs; in both cases it writes nothing of the state.      *)

render(gs, cv) == gs

----------------------------------------------------------------------------
(* Pointer handlers, lines 236-285.  p is (clientX - rect.left,            *)
(* clientY - rect.top).  Each operator is the handler's effect on the      *)
(* state, the early returns included.                                      *)

PointOf(p) == [x |-> Px(p.x), y |-> Px(p.y)]

\* (mutant: a pointer-down that also discards the objects)
handleCanvasMouseDownClearing(gs, cv, p) ==
    IF cv = NoCanvas THEN gs
    ELSE [gs EXCEPT !.objects = << >>,
                    !.isLaunching = TRUE,
                    !.launchStart = [x |-> Px(p.x), y |-> Px(p.y)],
                    !.currentMouse = [x |-> Px(p.x), y |-> Px(p.y)],
                    !.isPlaying = TRUE]

\* lines 236-251
handleCanvasMouseDown(gs, cv, p) ==
    IF cv = NoCanvas THEN gs
    ELSE [gs EXCEPT !.isLaunching = TRUE,
                    !.launchStart = PointOf(p),
                    !.currentMouse = PointOf(p),
                    !.isPlaying = TRUE]

\* (mutant: the pointer position is recorded with no gesture in progress)
handleCanvasMouseMoveUnguarded(gs, cv, p) ==
    IF cv = NoCanvas THEN gs
    ELSE [gs EXCEPT !.currentMouse = PointOf(p)]

\* lines 253-267
handleCanvasMouseMove(gs, cv, p) ==
    IF ~gs.isLaunching THEN gs
    ELSE IF cv = NoCanvas THEN gs
    ELSE [gs EXCEPT !.currentMouse = PointOf(p)]

\* line 270: the release is accepted
GestureComplete(gs) ==
    gs.isLaunching /\ gs.launchStart # NULL /\ gs.currentMouse # NULL

\* (mutant: the drag vector taken the wrong way round)
LaunchVelocityReversed(from, to) == Times(from - to, 2, 10)

\* lines 272-273: (currentMouse - launchStart) * 0.2
LaunchVelocity(from, to) == Times(to - from, 2, 10)

\* line 283: prev.score + Math.abs(vx) + Math.abs(vy)
ScoreAfter(score, vx, vy) == score + Abs(vx) + Abs(vy)

\* (mutant: no early return; a missing point is read as the origin)
handleCanvasMouseUpUnguarded(gs) ==
    LET from == IF gs.launchStart = NULL THEN [x |-> 0, y |-> 0] ELSE gs.launchStart
        to == IF gs.currentMouse = NULL THEN [x |-> 0, y |-> 0] ELSE gs.currentMouse
        vx == LaunchVelocity(from.x, to.x)
        vy == LaunchVelocity(from.y, to.y)
    IN  [gs EXCEPT !.objects = Append(gs.objects, createObject(from.x, from.y, vx, vy)),
                   !.isLaunching = FALSE,
                   !.launchStart = NULL,
                   !.currentMouse = NULL,
                   !.score = ScoreAfter(gs.score, vx, vy)]

\* lines 269-285
handleCanvasMouseUp(gs) ==
    IF ~GestureComplete(gs) THEN gs
    ELSE LET vx == LaunchVelocity(gs.launchStart.x, gs.currentMouse.x)
             vy == LaunchVelocity(gs.launchStart.y, gs.currentMouse.y)
             newObject == createObject(gs.launchStart.x, gs.launchStart.y, vx, vy)
         IN  [gs EXCEPT !.objects = Append(gs.objects, newObject),
                        !.isLaunching = FALSE,
                        !.launchStart = NULL,
                        !.currentMouse = NULL,
                        !.score = ScoreAfter(gs.score, vx, vy)]

----------------------------------------------------------------------------
(* Controls, lines 287-306, 423, 432 and 329-332 *)

\* (mutant: a reset that also zeroes the score)
resetGameAndScore(gs) ==
    [gs EXCEPT !.objects = << >>,
               !.isLaunching = FALSE,
               !.launchStart = NULL,
               !.currentMouse = NULL,
               !.score = 0]

\* lines 287-295
resetGame(gs) ==
    [gs EXCEPT !.objects = << >>,
               !.isLaunching = FALSE,
               !.launchStart = NULL,
               !.currentMouse = NULL]

\* line 298: Math.min(gameState.level + 1, LEVELS.length - 1)
NewLevel(level) == Min(level + 1, LastLevel)

\* (mutant: the preset read at the old level, LEVELS[gameState.level])
nextLevelOldPreset(gs) ==
    [gs EXCEPT !.level = NewLevel(gs.level),
               !.friction = LevelPreset(gs.level).friction,
               !.gravity = LevelPreset(gs.level).gravity,
               !.objects = << >>]

\* lines 297-306
nextLevel(gs) ==
    LET newLevel == NewLevel(gs.level)
    IN  [gs EXCEPT !.level = newLevel,
                   !.friction = LevelPreset(newLevel).friction,
                   !.gravity = LevelPreset(newLevel).gravity,
                   !.objects = << >>]

\* line 423: the friction slider's onChange
setFriction(gs, f) == [gs EXCEPT !.friction = f]

\* line 432: the gravity checkbox's onChange
setGravity(gs, g) == [gs EXCEPT !.gravity = g]

\* lines 329-332
resizeCanvas(innerWidth, innerHeight) ==
    [width  |-> Min(MaxCanvasWidth, innerWidth - WidthMargin),
     height |-> Min(MaxCanvasHeight, innerHeight - HeightMargin)]

----------------------------------------------------------------------------
(* History kept for stating the properties: for each object the gesture    *)
(* that launched it (start point and drag vector) and its launch velocity, *)
(* every position a physics step integrated for it (before the wall        *)
(* correction), and whether all its steps so far ran with friction 0,      *)
(* gravity off and neither wall test firing.                               *)

NoContact(m, cv) ==
    cv # NoCanvas => /\ ~HitsWall(m.x, m.size, Px(cv.width))
                     /\ ~HitsWall(m.y, m.size, Px(cv.height))

HistAfterStep(h, obj, gs, cv) ==
    LET m == moveObject(obj, gs.friction, gs.gravity)
    IN  [h EXCEPT !.path = Append(h.path, [x |-> m.x, y |-> m.y]),
                  !.inertial = /\ h.inertial
                               /\ gs.friction = 0
                               /\ ~gs.gravity
                               /\ NoContact(m, cv)]

HistAtLaunch(gs, obj) ==
    [start |-> gs.launchStart,
     drag |-> [x |-> gs.currentMouse.x - gs.launchStart.x,
               y |-> gs.currentMouse.y - gs.launchStart.y],
     v0 |-> [vx |-> obj.vx, vy |-> obj.vy],
     path |-> << >>,
     inertial |-> TRUE]

\* What the last handler found: the number of objects, whether a gesture was
\* in progress and whether its release would have been accepted.
Record(op) ==
    [op |-> op,
     count |-> Len(gameState.objects),
     launching |-> gameState.isLaunching,
     complete |-> GestureComplete(gameState)]

----------------------------------------------------------------------------
(* Initial state: the component mounted, lines 64-74, and the canvas sized *)
(* by the mount effect, lines 325-337.                                     *)

InitialGameState ==
    [objects |-> << >>,
     friction |-> LevelPreset(0).friction,
     gravity |-> LevelPreset(0).gravity,
     isLaunching |-> FALSE,
     launchStart |-> NULL,
     currentMouse |-> NULL,
     level |-> 0,
     score |-> 0,
     isPlaying |-> FALSE]

\* The loop once the component is mounted: the effect of lines 308-323 has
\* run animate() once (line 317), which rendered the initial state and made
\* the first request.
\*   mounted  the component is mounted
\*   dirty    setGameState was called since the last commit: render, whose
\*            dependency is gameState (line 234), has a new identity and the
\*            effect is due to run again
\*   shown    the gameState of the last commit, which the closures of
\*            animate and render hold
\*   ref      animationRef.current (0: undefined)
\*   pending  the requests made and neither run nor cancelled, each with the
\*            gameState.isPlaying its animate closure holds
\*   calls    calls of animate so far; request ids count them
\*   renders  calls of render so far
\*   by       who called animate last: "mount", "effect" or "frame"
\*   fresh    the last render painted the state its animate call left
LoopAtMount ==
    [mounted |-> TRUE,
     dirty |-> FALSE,
     shown |-> InitialGameState,
     ref |-> 1,
     pending |-> { [id |-> 1, playing |-> FALSE] },
     calls |-> 1,
     renders |-> 1,
     by |-> "mount",
     fresh |-> TRUE]

Init ==
    /\ gameState = InitialGameState
    /\ \E w \in WindowSizes : canvas = resizeCanvas(w[1], w[2])
    /\ frames = 0
    /\ hist = << >>
    /\ last = [op |-> "mount", count |-> 0, launching |-> FALSE, complete |-> FALSE]
    /\ loop = LoopAtMount

----------------------------------------------------------------------------
(* Actions: one per handler *)

MouseDown(p) ==
    /\ gameState' = handleCanvasMouseDown(gameState, canvas, p)
    /\ last' = Record("mouseDown")
    /\ UNCHANGED <<canvas, frames, hist>>

MouseMove(p) ==
    /\ gameState' = handleCanvasMouseMove(gameState, canvas, p)
    /\ last' = Record("mouseMove")
    /\ UNCHANGED <<canvas, frames, hist>>

\* A release that launches is taken only while the model's bounds allow it.
MouseUp(maxScore) ==
    /\ GestureComplete(gameState) =>
         /\ Len(gameState.objects) < MaxObjects
         /\ handleCanvasMouseUp(gameState).score <= Px(maxScore)
    /\ gameState' = handleCanvasMouseUp(gameState)
    /\ hist' = IF GestureComplete(gameState)
               THEN Append(hist, HistAtLaunch(gameState,
                                              gameState'.objects[Len(gameState'.objects)]))
               ELSE hist
    /\ last' = Record("mouseUp")
    /\ UNCHANGED <<canvas, frames>>

ResetGame ==
    /\ gameState' = resetGame(gameState)
    /\ hist' = << >>
    /\ last' = Record("reset")
    /\ UNCHANGED <<canvas, frames>>

\* The Next Level button is disabled at the last level (line 462).
NextLevel ==
    /\ gameState.level < LastLevel
    /\ gameState' = nextLevel(gameState)
    /\ hist' = << >>
    /\ last' = Record("nextLevel")
    /\ UNCHANGED <<canvas, frames>>

SetFriction(f) ==
    /\ gameState' = setFriction(gameState, f)
    /\ last' = Record("setFriction")
    /\ UNCHANGED <<canvas, frames, hist>>

\* The checkbox delivers the negation of what it shows (checked = gravity).
SetGravity ==
    /\ gameState' = setGravity(gameState, ~gameState.gravity)
    /\ last' = Record("setGravity")
    /\ UNCHANGED <<canvas, frames, hist>>

ResizeCanvas(w) ==
    /\ canvas # NoCanvas
    /\ canvas' = resizeCanvas(w[1], w[2])
    /\ last' = Record("resize")
    /\ UNCHANGED <<gameState, frames, hist>>

\* (mutant: updatePhysics called whatever the playing flag)
AnimateBodyAlways(playing, maxFrames) ==
    /\ frames < maxFrames
    /\ Steppable(gameState, canvas)
    /\ gameState' = updatePhysics(gameState, canvas)
    /\ hist' = [i \in 1..Len(gameState.objects) |->
                  HistAfterStep(hist[i], gameState.objects[i], gameState, canvas)]
    /\ frames' = frames + 1
    /\ last' = Record("updatePhysics")
    /\ UNCHANGED canvas

\* animate, lines 309-315: updatePhysics while playing, then render (which
\* writes nothing of the state).
AnimateBody(playing, maxFrames) ==
    /\ IF playing
       THEN /\ frames < maxFrames
            /\ Steppable(gameState, canvas)
            /\ gameState' = updatePhysics(gameState, canvas)
            /\ hist' = [i \in 1..Len(gameState.objects) |->
                          HistAfterStep(hist[i], gameState.objects[i], gameState, canvas)]
            /\ frames' = frames + 1
            /\ last' = Record("updatePhysics")
       ELSE /\ last' = Record("render")
            /\ UNCHANGED <<gameState, hist, frames>>
    /\ UNCHANGED canvas

\* A call of animate whose closure holds the current state.  Spec and SpecRun
\* allow it at any time and leave the scheduling of the loop aside.
Animate(maxFrames) ==
    /\ AnimateBody(gameState.isPlaying, maxFrames)
    /\ UNCHANGED loop

Next ==
    \/ \E p \in Points : MouseDown(p) /\ UNCHANGED loop
    \/ \E p \in Targets : MouseMove(p) /\ UNCHANGED loop
    \/ MouseUp(MaxScore) /\ UNCHANGED loop
    \/ ResetGame /\ UNCHANGED loop
    \/ NextLevel /\ UNCHANGED loop
    \/ \E f \in SliderValues : SetFriction(f) /\ UNCHANGED loop
    \/ SetGravity /\ UNCHANGED loop
    \/ \E w \in WindowSizes : ResizeCanvas(w) /\ UNCHANGED loop
    \/ Animate(MaxFrames)

Spec == Init /\ [][Next]_vars

----------------------------------------------------------------------------
(* Long runs: at level 0, the canvas sized at mount, gravity chosen before *)
(* the first gesture, one object in flight at a time, RunFrames steps.     *)

InitRun ==
    /\ gameState = InitialGameState
    /\ \E w \in WindowSizes : canvas = resizeCanvas(w[1], w[2])
    /\ frames = 0
    /\ hist = << >>
    /\ last = [op |-> "mount", count |-> 0, launching |-> FALSE, complete |-> FALSE]
    /\ loop = LoopAtMount

RunSetGravity == ~gameState.isPlaying /\ SetGravity

RunMouseDown(p) == gameState.objects = << >> /\ ~gameState.isLaunching /\ MouseDown(p)

NextRun ==
    \/ RunSetGravity /\ UNCHANGED loop
    \/ \E p \in RunPoints : RunMouseDown(p) /\ UNCHANGED loop
    \/ \E p \in RunTargets : MouseMove(p) /\ UNCHANGED loop
    \/ MouseUp(RunScore) /\ UNCHANGED loop
    \/ ResetGame /\ UNCHANGED loop
    \/ Animate(RunFrames)

SpecRun == InitRun /\ [][NextRun]_vars

----------------------------------------------------------------------------
(* The stepper and the renderer as functions: one object launched by a     *)
(* gesture from StepPoints with a drag from StepDrags, friction and        *)
(* gravity as the slider and the checkbox left them, and the canvas        *)
(* reference either set or null; then updatePhysics and render are called  *)
(* on it, StepFrames steps at most.                                        *)

\* canvasRef.current when the stepper or the renderer runs.
StepCanvases == {NoCanvas} \cup { resizeCanvas(w[1], w[2]) : w \in WindowSizes }

InitStepper ==
    \E p \in StepPoints, d \in StepDrags, f \in StepFrictions, g \in BOOLEAN :
        LET gesture == [InitialGameState EXCEPT
                            !.friction = f,
                            !.gravity = g,
                            !.isLaunching = TRUE,
                            !.launchStart = PointOf(p),
                            !.currentMouse = PointOf([x |-> p.x + d.x, y |-> p.y + d.y]),
                            !.isPlaying = TRUE]
            launched == handleCanvasMouseUp(gesture)
        IN  /\ gameState = launched
            /\ hist = << HistAtLaunch(gesture, launched.objects[1]) >>
            /\ canvas \in StepCanvases
            /\ frames = 0
            /\ last = [op |-> "mouseUp", count |-> 0, launching |-> TRUE, complete |-> TRUE]
            /\ loop = LoopAtMount

StepperCall ==
    /\ frames < StepFrames
    /\ Steppable(gameState, canvas)
    /\ gameState' = updatePhysics(gameState, canvas)
    /\ hist' = [i \in 1..Len(gameState.objects) |->
                  HistAfterStep(hist[i], gameState.objects[i], gameState, canvas)]
    /\ frames' = frames + 1
    /\ last' = Record("updatePhysics")
    /\ UNCHANGED <<canvas, loop>>

RendererCall ==
    /\ gameState' = render(gameState, canvas)
    /\ last' = Record("render")
    /\ UNCHANGED <<canvas, frames, hist, loop>>

NextStepper ==
    \/ StepperCall
    \/ RendererCall

SpecStepper == InitStepper /\ [][NextStepper]_vars

----------------------------------------------------------------------------
(* The animation loop, lines 308-323.  Every setGameState gives render a   *)
(* new identity at the next commit (its dependency is gameState, line      *)
(* 234), so the effect runs again: its cleanup cancels the request named   *)
(* by animationRef, and its body calls animate() at once (line 317).       *)
(* A frame callback runs the animate of the effect that requested it.      *)
(* Handlers see the state left by the handler before them; the commit      *)
(* that follows a state update may come before or after a frame callback.  *)

\* (mutant: a cleanup that cancels nothing)
CancelNothing(pending, ref) == pending

\* lines 319-321: if (animationRef.current) cancelAnimationFrame(...)
Cancel(pending, ref) ==
    IF ref # 0 THEN { r \in pending : r.id # ref } ELSE pending

\* The loop after one call of animate (lines 309-315) from caller by, its
\* closure holding playing and painting painted: render is called, and the
\* request of line 314 gets the next id, which animationRef then names.
\* left is the state the call leaves.
AfterAnimate(l, outstanding, playing, by, painted, left) ==
    [l EXCEPT !.pending = outstanding \cup { [id |-> l.calls + 1, playing |-> playing] },
              !.ref = l.calls + 1,
              !.calls = l.calls + 1,
              !.renders = l.renders + 1,
              !.by = by,
              !.dirty = l.dirty \/ playing,
              !.fresh = (painted = left)]

\* A handler ran; called: it reached its setGameState.
Staged(called) ==
    /\ loop.mounted
    /\ loop' = [loop EXCEPT !.dirty = loop.dirty \/ called]

\* The commit of a state update: cleanup of the previous effect, then the
\* effect body with closures over the state committed.
Commit ==
    /\ loop.mounted
    /\ loop.dirty
    /\ loop.calls < MaxCalls
    /\ AnimateBody(gameState.isPlaying, MaxCalls)
    /\ loop' = AfterAnimate([loop EXCEPT !.dirty = FALSE, !.shown = gameState],
                            Cancel(loop.pending, loop.ref),
                            gameState.isPlaying, "effect", gameState, gameState')

\* The browser runs an outstanding request.
Frame ==
    \E r \in loop.pending :
        /\ loop.calls < MaxCalls
        /\ AnimateBody(r.playing, MaxCalls)
        /\ loop' = AfterAnimate(loop, loop.pending \ {r},
                                r.playing, "frame", loop.shown, gameState')

\* The component is removed: the ref is detached and the cleanup runs.
Unmount ==
    /\ loop.mounted
    /\ loop' = [loop EXCEPT !.mounted = FALSE,
                            !.pending = Cancel(loop.pending, loop.ref)]
    /\ canvas' = NoCanvas
    /\ last' = Record("unmount")
    /\ UNCHANGED <<gameState, frames, hist>>

\* One object at a time is launched: a gesture begins when there is none.
LoopMouseDown(p) == gameState.objects = << >> /\ MouseDown(p) /\ Staged(TRUE)

NextLoop ==
    \/ \E p \in Points : LoopMouseDown(p)
    \/ \E p \in Targets : MouseMove(p) /\ Staged(gameState.isLaunching)
    \/ MouseUp(MaxScore) /\ Staged(GestureComplete(gameState))
    \/ ResetGame /\ Staged(TRUE)
    \/ \E f \in SliderValues : SetFriction(f) /\ Staged(TRUE)
    \/ SetGravity /\ Staged(TRUE)
    \/ Commit
    \/ Frame
    \/ Unmount

SpecLoop == Init /\ [][NextLoop]_vars

----------------------------------------------------------------------------
(* Vocabulary of the properties *)

Objects == gameState.objects
Stepped == last'.op = "updatePhysics"       \* this step ran updatePhysics
Last(seq) == seq[Len(seq)]

\* The position the step integrated for object i, before the wall
\* correction: the entry the step pushed onto the trail.
Integrated(i) == Last(Objects'[i].trail)

\* The wall tests of the step for object i.
ContactX(i) == Integrated(i).x <= Px(Radius) \/ Integrated(i).x >= Px(canvas.width - Radius)
ContactY(i) == Integrated(i).y <= Px(Radius) \/ Integrated(i).y >= Px(canvas.height - Radius)

WideEnough == canvas.width >= 2 * Radius
HighEnough == canvas.height >= 2 * Radius

----------------------------------------------------------------------------
(* C1: with friction 0 and gravity off, a physics step in which neither    *)
(* wall test fires leaves (vx, vy) unchanged and moves the position by     *)
(* exactly (vx, vy); so after n such steps since its launch an object has  *)
(* its launch velocity and stands at launch point + n * velocity, and an   *)
(* object launched with drag (100, 0) has velocity (20, 0) and has         *)
(* advanced by (20 n, 0).                                                  *)

C1_Step ==
    (Stepped /\ gameState.friction = 0 /\ ~gameState.gravity) =>
        \A i \in 1..Len(Objects) :
            (~ContactX(i) /\ ~ContactY(i)) =>
                /\ Objects'[i].vx = Objects[i].vx
                /\ Objects'[i].vy = Objects[i].vy
                /\ Objects'[i].x = Objects[i].x + Objects[i].vx
                /\ Objects'[i].y = Objects[i].y + Objects[i].vy

C1_Flight ==
    \A i \in 1..Len(Objects) :
        LET o == Objects[i]
            h == hist[i]
            n == Len(h.path)
        IN  h.inertial =>
              /\ o.vx = h.v0.vx /\ o.vy = h.v0.vy
              /\ o.x = h.start.x + n * h.v0.vx
              /\ o.y = h.start.y + n * h.v0.vy
              /\ h.drag = [x |-> Px(100), y |-> 0] =>
                    /\ o.vx = Px(20) /\ o.vy = 0
                    /\ o.x = h.start.x + n * Px(20) /\ o.y = h.start.y

\* C1: every step satisfies C1_Step and every state satisfies C1_Flight.
C1_InertialMotion == [][C1_Step]_vars /\ []C1_Flight

\* Ten inertial steps after a launch with drag (100, 0): velocity (20, 0),
\* advanced by (200, 0).
C1_Witness ==
    \E i \in 1..Len(Objects) :
        /\ hist[i].inertial
        /\ hist[i].drag = [x |-> Px(100), y |-> 0]
        /\ Len(hist[i].path) = 10
        /\ Objects[i].vx = Px(20) /\ Objects[i].vy = 0
        /\ Objects[i].x = hist[i].start.x + Px(200)
        /\ Objects[i].y = hist[i].start.y

----------------------------------------------------------------------------
(* C4: every trail has at most 50 entries; after n physics steps since the *)
(* object's creation it has exactly min(n, 50) entries, and they are the   *)
(* positions the most recent min(n, 50) steps appended, oldest first.      *)

C4_TrailBounded ==
    \A i \in 1..Len(Objects) :
        LET trail == Objects[i].trail
            path == hist[i].path
            n == Len(path)
            k == Min(n, TrailMax)
        IN  /\ Len(trail) <= TrailMax
            /\ Len(trail) = k
            /\ \A j \in 1..k : trail[j] = path[n - k + j]

\* An object older than 50 steps: its oldest positions have been evicted.
C4_Witness ==
    \E i \in 1..Len(Objects) :
        /\ Len(hist[i].path) > TrailMax
        /\ Len(Objects[i].trail) = TrailMax
        /\ Objects[i].trail[1] # hist[i].path[1]

----------------------------------------------------------------------------
(* C2, as claimed: in every reachable state every object's position        *)
(* satisfies radius <= x <= canvasWidth - radius and                       *)
(* radius <= y <= canvasHeight - radius.                                   *)

----------------------------------------------------------------------------
(* C3.  The velocity component "before the collision check" is the one the *)
(* step integrated with: integrated coordinate - coordinate before.        *)

VelBeforeCheckX(i) == Integrated(i).x - Objects[i].x
VelBeforeCheckY(i) == Integrated(i).y - Objects[i].y

(* C3, as claimed: on each axis independently, when the integrated         *)
(* coordinate is <= radius or >= dimension - radius the velocity component *)
(* becomes exactly -0.8 times its value before the check and the           *)
(* coordinate lies in [radius, dimension - radius].                        *)

C3_StepAsClaimed ==
    Stepped =>
        \A i \in 1..Len(Objects) :
            /\ ContactX(i) =>
                 /\ 10 * Objects'[i].vx = -8 * VelBeforeCheckX(i)
                 /\ Px(Radius) <= Objects'[i].x
                 /\ Objects'[i].x <= Px(canvas.width - Radius)
            /\ ContactY(i) =>
                 /\ 10 * Objects'[i].vy = -8 * VelBeforeCheckY(i)
                 /\ Px(Radius) <= Objects'[i].y
                 /\ Objects'[i].y <= Px(canvas.height - Radius)

\* C3 as claimed: every step satisfies C3_StepAsClaimed.
C3_AsClaimed == [][C3_StepAsClaimed]_vars

(* C3, amended: ... and the coordinate is clamped into                     *)
(* [radius, dimension - radius] when dimension >= 2 * radius, and set to   *)
(* radius when the dimension is smaller.                                   *)

ClampedTo(new, integrated, dim) ==
    IF dim >= 2 * Radius
    THEN new = (IF integrated <= Px(Radius) THEN Px(Radius) ELSE Px(dim - Radius))
    ELSE new = Px(Radius)

C3_StepBounce ==
    Stepped =>
        \A i \in 1..Len(Objects) :
            /\ ContactX(i) =>
                 /\ 10 * Objects'[i].vx = -8 * VelBeforeCheckX(i)
                 /\ ClampedTo(Objects'[i].x, Integrated(i).x, canvas.width)
            /\ ContactY(i) =>
                 /\ 10 * Objects'[i].vy = -8 * VelBeforeCheckY(i)
                 /\ ClampedTo(Objects'[i].y, Integrated(i).y, canvas.height)

\* C3 amended: every step satisfies C3_StepBounce.
C3_Bounce == [][C3_StepBounce]_vars

\* The object that stood 1px short of the right wall test with vx = +50:
\* the step leaves vx = -40 and x = width - radius.
C3_Witness ==
    /\ last.op = "updatePhysics"
    /\ gameState.friction = 0
    /\ WideEnough
    /\ \E i \in 1..Len(Objects) :
        LET n == Len(hist[i].path)
        IN  /\ n >= 2
            /\ hist[i].v0.vx = Px(50)
            /\ hist[i].path[n - 1].x = Px(canvas.width - Radius - 1)
            /\ hist[i].path[n].x > Px(canvas.width - Radius)
            /\ Objects[i].vx = Px(-40)
            /\ Objects[i].x = Px(canvas.width - Radius)

----------------------------------------------------------------------------
(* C10, as claimed: with gravity on and friction 0 every physics frame     *)
(* increases every object's vy by exactly 0.3.                             *)

C10_StepAsClaimed ==
    (Stepped /\ gameState.gravity /\ gameState.friction = 0) =>
        \A i \in 1..Len(Objects) :
            10 * (Objects'[i].vy - Objects[i].vy) = 3 * Unit

\* C10 as claimed: every step satisfies C10_StepAsClaimed.
C10_AsClaimed == [][C10_StepAsClaimed]_vars

(* C10, amended: with gravity on and friction 0, a physics frame in which  *)
(* the object's integrated y fires neither the top nor the bottom wall     *)
(* test increases vy by exactly 0.3; a frame in which it does leaves       *)
(* vy = -0.8 * (vy before + 0.3).                                          *)

C10_StepGravity ==
    (Stepped /\ gameState.gravity /\ gameState.friction = 0) =>
        \A i \in 1..Len(Objects) :
            IF ContactY(i)
            THEN 100 * Objects'[i].vy = -8 * (10 * Objects[i].vy + 3 * Unit)
            ELSE 10 * (Objects'[i].vy - Objects[i].vy) = 3 * Unit

\* C10 amended: every step satisfies C10_StepGravity.
C10_GravityAccumulates == [][C10_StepGravity]_vars

\* Three or more frames of pure accumulation since the launch.
C10_Witness ==
    /\ last.op = "updatePhysics"
    /\ gameState.gravity /\ gameState.friction = 0
    /\ \E i \in 1..Len(Objects) :
        LET n == Len(hist[i].path)
        IN  /\ n >= 3
            /\ 10 * (Objects[i].vy - hist[i].v0.vy) = n * 3 * Unit

----------------------------------------------------------------------------
(* C5: a pointer release that completes an active gesture (start S,        *)
(* current point C) appends exactly one new object with position S,        *)
(* velocity 0.2 * (C - S) and an empty trail, clears the gesture, and      *)
(* adds |vx| + |vy| to the score; the objects that existed, the level,     *)
(* friction and gravity are unchanged.                                     *)

C5_StepLaunch ==
    (last'.op = "mouseUp" /\ gameState.isLaunching
        /\ gameState.launchStart # NULL /\ gameState.currentMouse # NULL) =>
        LET S == gameState.launchStart
            C == gameState.currentMouse
            n == Len(Objects)
            new == Objects'[n + 1]
        IN  /\ Len(Objects') = n + 1
            /\ \A i \in 1..n : Objects'[i] = Objects[i]
            /\ new.x = S.x /\ new.y = S.y
            /\ 10 * new.vx = 2 * (C.x - S.x)
            /\ 10 * new.vy = 2 * (C.y - S.y)
            /\ new.trail = << >>
            /\ ~gameState'.isLaunching
            /\ gameState'.launchStart = NULL
            /\ gameState'.currentMouse = NULL
            /\ gameState'.score = gameState.score + Abs(new.vx) + Abs(new.vy)
            /\ gameState'.level = gameState.level
            /\ gameState'.friction = gameState.friction
            /\ gameState'.gravity = gameState.gravity

\* C5: every step satisfies C5_StepLaunch.
C5_Launch == [][C5_StepLaunch]_vars

\* A moving object launched beside an object that already existed.
C5_Witness ==
    /\ last.op = "mouseUp" /\ last.complete /\ last.count >= 1
    /\ Len(Objects) = last.count + 1
    /\ Objects[Len(Objects)].vx # 0
    /\ gameState.score > 0

----------------------------------------------------------------------------
(* C6: across every transition the number of objects stays the same,       *)
(* grows by exactly one (only on a completed launch gesture) or becomes    *)
(* zero (only on Reset or level advance).                                  *)

C6_StepCount ==
    LET n == Len(Objects)
        m == Len(Objects')
    IN  \/ m = n
        \/ m = n + 1 /\ last'.op = "mouseUp" /\ GestureComplete(gameState)
        \/ m = 0 /\ last'.op \in {"reset", "nextLevel"}

\* C6: every step satisfies C6_StepCount.
C6_ObjectCount == [][C6_StepCount]_vars

\* A level advance that emptied a collection of two objects.
C6_Witness ==
    /\ last.op = "nextLevel" /\ last.count = 2
    /\ Objects = << >>

----------------------------------------------------------------------------
(* C7: every level advance sets level to min(level + 1, 3) and, in the     *)
(* same step, empties the objects and sets (friction, gravity) to the      *)
(* preset of the resulting level: (0.03, true) at level 3.  The level is   *)
(* never above 3.                                                          *)

C7_StepAdvance ==
    /\ gameState'.level \in 0..3
    /\ last'.op = "nextLevel" =>
        /\ gameState'.level = Min(gameState.level + 1, 3)
        /\ Objects' = << >>
        /\ gameState'.friction = LEVELS[gameState'.level + 1].friction
        /\ gameState'.gravity = LEVELS[gameState'.level + 1].gravity
        /\ gameState'.level = 3 => gameState'.friction = 3 /\ gameState'.gravity

\* C7: every step satisfies C7_StepAdvance.
C7_LevelAdvance == [][C7_StepAdvance]_vars

\* Level 3 reached by an advance that found objects.
C7_Witness ==
    /\ last.op = "nextLevel" /\ last.count >= 1
    /\ gameState.level = 3
    /\ Objects = << >>
    /\ gameState.friction = 3 /\ gameState.gravity

----------------------------------------------------------------------------
(* C8, as claimed: a reset in a state whose object collection is empty     *)
(* leaves the whole state unchanged.                                       *)

C8_StepAsClaimed ==
    (last'.op = "reset" /\ Objects = << >>) => gameState' = gameState

\* C8 as claimed: every step satisfies C8_StepAsClaimed.
C8_AsClaimed == [][C8_StepAsClaimed]_vars

(* C8, amended: a reset in a state with no objects and no gesture in       *)
(* progress leaves the whole state unchanged; in every state, a reset      *)
(* applied to the state a reset left changes nothing.                      *)

C8_StepReset ==
    last'.op = "reset" =>
        /\ (Objects = << >> /\ ~gameState.isLaunching
              /\ gameState.launchStart = NULL /\ gameState.currentMouse = NULL)
             => (gameState' = gameState /\ canvas' = canvas)
        /\ last.op = "reset" => gameState' = gameState

\* C8 amended: every step satisfies C8_StepReset.
C8_ResetIdempotent == [][C8_StepReset]_vars

\* A reset of a state with no objects and no gesture, after a launch had
\* raised the score.
C8_Witness ==
    /\ last.op = "reset" /\ last.count = 0 /\ ~last.launching
    /\ gameState.score > 0
    /\ gameState.isPlaying

----------------------------------------------------------------------------
(* C9: a pointer release that finds no active gesture, or no start point,  *)
(* or no current point, changes nothing: no object, no score, no other     *)
(* field.                                                                  *)

C9_StepRejected ==
    (last'.op = "mouseUp"
        /\ (~gameState.isLaunching \/ gameState.launchStart = NULL
              \/ gameState.currentMouse = NULL)) =>
        /\ gameState' = gameState
        /\ canvas' = canvas

\* C9: every step satisfies C9_StepRejected.
C9_ReleaseRejected == [][C9_StepRejected]_vars

\* A release with no gesture in progress, objects present.
C9_Witness ==
    /\ last.op = "mouseUp" /\ ~last.complete /\ ~last.launching
    /\ Len(Objects) >= 1 /\ Len(Objects) = last.count

----------------------------------------------------------------------------
(* C16: the three fields of the launch gesture agree in every reachable    *)
(* state: isLaunching is true exactly when launchStart is set, and exactly *)
(* when currentMouse is set, whatever the order of pointer events, Reset,  *)
(* level changes and physics steps.                                        *)

\* C16: isLaunching <=> launchStart # null <=> currentMouse # null.
C16_GestureConsistent ==
    /\ gameState.isLaunching <=> (gameState.launchStart # NULL)
    /\ gameState.isLaunching <=> (gameState.currentMouse # NULL)

\* A pointer-move delivered with no gesture in progress (after a Reset or a
\* release), objects having been stepped in between.
C16_Witness ==
    /\ last.op = "mouseMove" /\ ~last.launching
    /\ ~gameState.isLaunching
    /\ gameState.isPlaying
    /\ frames >= 1

----------------------------------------------------------------------------
(* C17: a wall correction leaves the velocity pointing away from the wall  *)
(* that was hit. A wall is hit on an axis when the integrated position     *)
(* meets the test of lines 120 and 124: at or below the radius for the     *)
(* left and top walls, at or above the dimension minus the radius for the  *)
(* right and bottom walls.                                                 *)

C17_StepAsClaimed ==
    Stepped =>
        \A i \in 1..Len(Objects') :
            /\ Integrated(i).x <= Px(Radius) => Objects'[i].vx >= 0
            /\ Integrated(i).x >= Px(canvas.width - Radius) => Objects'[i].vx <= 0
            /\ Integrated(i).y <= Px(Radius) => Objects'[i].vy >= 0
            /\ Integrated(i).y >= Px(canvas.height - Radius) => Objects'[i].vy <= 0

\* C17: after every physics step, the velocity component of an object that
\* hit a wall on an axis does not point toward that wall: it is >= 0 after a
\* left or top hit and <= 0 after a right or bottom hit.
C17_AsClaimed == [][C17_StepAsClaimed]_vars

----------------------------------------------------------------------------
(* C13: with the canvas reference null, a call of the stepper leaves every *)
(* object's position, velocity and trail as they were, and so does a call  *)
(* of the renderer.                                                        *)

C13_StepAsClaimed ==
    (canvas = NoCanvas /\ last'.op \in {"updatePhysics", "render"}) =>
        gameState'.objects = gameState.objects

\* C13: every call of updatePhysics or render made while the canvas is null
\* leaves the objects unchanged.
C13_AsClaimed == [][C13_StepAsClaimed]_vars

----------------------------------------------------------------------------
(* C15: one physics step applies gravity, then friction, then integrates;  *)
(* with friction f (hundredths here) and neither wall test firing,         *)
(*   vx' = vx * (1 - f),  vy' = (vy + 0.3 if gravity else vy) * (1 - f),   *)
(* and the position moves by (vx', vy').  With gravity off and f > 0 the   *)
(* velocity after n such steps is the launch velocity times (1 - f)^n,     *)
(* and is not zero when the launch velocity is not.                        *)

\* No wall test fires for object i in this step (none can without a canvas).
C15_NoContact(i) == canvas # NoCanvas => ~ContactX(i) /\ ~ContactY(i)

C15_Step ==
    Stepped =>
        \A i \in 1..Len(Objects) :
            LET old == Objects[i]
                new == Objects'[i]
                f == gameState.friction
                vyG == IF gameState.gravity THEN 10 * old.vy + 3 * Unit ELSE 10 * old.vy
            IN  C15_NoContact(i) =>
                    /\ 100 * new.vx = old.vx * (100 - f)
                    /\ 1000 * new.vy = vyG * (100 - f)
                    /\ new.x = old.x + new.vx
                    /\ new.y = old.y + new.vy

\* v times (1 - f)^n
RECURSIVE C15_Decayed(_, _, _)
C15_Decayed(v, f, n) ==
    IF n = 0 THEN v ELSE (C15_Decayed(v, f, n - 1) * (100 - f)) \div 100

\* No step of object i so far met a wall test.
C15_FreeFlight(i) ==
    canvas # NoCanvas =>
        \A k \in 1..Len(hist[i].path) :
            /\ ~HitsWall(hist[i].path[k].x, Px(Radius), Px(canvas.width))
            /\ ~HitsWall(hist[i].path[k].y, Px(Radius), Px(canvas.height))

C15_Decay ==
    \A i \in 1..Len(Objects) :
        (~gameState.gravity /\ gameState.friction > 0 /\ C15_FreeFlight(i)) =>
            LET n == Len(hist[i].path)
                v0 == hist[i].v0
            IN  /\ Objects[i].vx = C15_Decayed(v0.vx, gameState.friction, n)
                /\ Objects[i].vy = C15_Decayed(v0.vy, gameState.friction, n)
                /\ v0.vx # 0 => Objects[i].vx # 0
                /\ v0.vy # 0 => Objects[i].vy # 0

\* C15: every step applies gravity, then friction, then integration, and
\* after n contact-free steps with gravity off and friction f > 0 the velocity
\* is the launch velocity times (1 - f)^n, non-zero if it started non-zero.
C15_StepOrder == [][C15_Step]_vars /\ []C15_Decay

\* Three contact-free steps under friction 0.1 with gravity off, the object
\* launched with both velocity components non-zero.
C15_Witness ==
    /\ last.op = "updatePhysics"
    /\ Len(Objects) = 1
    /\ gameState.friction = 10 /\ ~gameState.gravity
    /\ Len(hist[1].path) >= 3
    /\ C15_FreeFlight(1)
    /\ hist[1].v0.vx # 0 /\ hist[1].v0.vy # 0
    /\ Objects[1].vx # hist[1].v0.vx

----------------------------------------------------------------------------
(* C11: updatePhysics runs only in states whose isPlaying is true; the     *)
(* flag is false at mount and is first set by a pointer-down, so nothing   *)
(* is stepped before the first gesture; every call of animate renders,     *)
(* whether or not the flag is set.                                         *)

Animated == loop'.calls # loop.calls        \* this step is a call of animate

C11_Step ==
    /\ Stepped => gameState.isPlaying
    /\ (~gameState.isPlaying /\ gameState'.isPlaying) => last'.op = "mouseDown"
    /\ Animated => loop'.renders = loop.renders + 1

C11_BeforePlaying ==
    ~gameState.isPlaying =>
        /\ frames = 0
        /\ Objects = << >>

\* C11: a physics step is taken only from a state with isPlaying true, the
\* flag is false until the first pointer-down, no step has run while it is
\* false, and every call of animate calls render.
C11_AdvanceOnlyWhilePlaying == [][C11_Step]_vars /\ []C11_BeforePlaying

\* A frame callback stepped an object, after frame callbacks that only
\* rendered because the flag was not yet set.
C11_Witness ==
    /\ last.op = "updatePhysics"
    /\ loop.by = "frame"
    /\ Len(Objects) = 1 /\ Len(Objects[1].trail) >= 1
    /\ loop.renders = loop.calls
    /\ loop.renders >= frames + 2

----------------------------------------------------------------------------
(* C12: once the component is unmounted no request is outstanding and      *)
(* animate is not called again; at any time the only request that can be   *)
(* outstanding is the one animationRef names, so no superseded request is  *)
(* left behind.                                                            *)

C12_NoStaleRequest ==
    /\ \A r \in loop.pending : r.id = loop.ref
    /\ ~loop.mounted => loop.pending = {}

C12_StepAfterTeardown ==
    ~loop.mounted => /\ loop'.calls = loop.calls
                     /\ loop'.renders = loop.renders
                     /\ gameState' = gameState

\* C12: after the unmount no request is outstanding and no call of animate
\* (no step, no render) happens; an outstanding request is always the one
\* animationRef names.
C12_LoopStopsAtTeardown == []C12_NoStaleRequest /\ [][C12_StepAfterTeardown]_vars

\* Unmounted while playing, after the effect had re-registered the loop and
\* a frame callback had run: the last request was cancelled.
C12_Witness ==
    /\ ~loop.mounted
    /\ last.op = "unmount"
    /\ gameState.isPlaying
    /\ loop.by = "frame"
    /\ loop.calls >= 3
    /\ loop.ref = loop.calls
    /\ loop.pending = {}

----------------------------------------------------------------------------
(* C14: objects advance only in frame callbacks, one advance and then one  *)
(* render per frame; a pointer-down, a pointer-move or an edit of friction *)
(* or gravity advances no object, neither itself nor through the effect    *)
(* running again; the render of a frame paints the state that frame's      *)
(* advance produced.                                                       *)

C14_StepAsClaimed ==
    /\ (Stepped /\ Objects' # Objects) => loop'.by = "frame"
    /\ last'.op \in {"mouseDown", "mouseMove", "setFriction", "setGravity"} =>
            Objects' = Objects
    /\ (Animated /\ Stepped /\ Objects' # Objects) => loop'.fresh

\* C14: every step that advances an object is a frame callback, no handler
\* advances one, and a call of animate that advances an object paints the
\* state it leaves.
C14_AsClaimed == [][C14_StepAsClaimed]_vars

====
